---- MODULE Spec2Model ----
(***************************************************************************)
(* Model of tgnoti.py: the config-file resolution, the TGNotifier object   *)
(* (registry, update cursor, broadcast, photo selection) and main().       *)
(*                                                                         *)
(* Two drivers use the notifier.  "main" is one run of the command line    *)
(* program (lines 267-336), specification Spec.  "lib" is a client of the  *)
(* class that builds a TGNotifier and calls its methods repeatedly on one  *)
(* object, specifications SpecLib (discovery) and SpecPhoto (photos).      *)
(*                                                                         *)
(* Python values are modelled as follows.                                  *)
(*  - None is the string NoneVal.                                          *)
(*  - A dict is a sequence of [k, name] entries with distinct keys, in     *)
(*    insertion order (dicts keep insertion order).                        *)
(*  - A dict key is [t, v]: t is "str" or "int", v the number it denotes.  *)
(*    The int 1 and the str "1" are different keys; json.dump writes both  *)
(*    as "1" and json.load yields str keys only.                           *)
(*  - An HTTP exchange is [exc, status]: exc means requests.get/post       *)
(*    raised, otherwise status is the response's status code.              *)
(***************************************************************************)
EXTENDS Integers, Sequences, FiniteSets, TLC

VARIABLES
  driver,            \* "main" or "lib"
  args,              \* the parsed command line (main)
  isfile,            \* os.path.isfile of each path
  xdg_available,     \* whether `from xdg import BaseDirectory` succeeds
  pc,                \* position of the control flow
  op,                \* the notifier method being executed
  calls,             \* number of method calls made by the lib driver
  config_file_path,  \* main's / the notifier's config_file_path
  warned,            \* the "Found two config files" warning was logged
  file_content,      \* the JSON object read by TGNotifier.create
  api_key,           \* self.api_key
  registered_chats,  \* self.registered_chats
  last_update_id,    \* self.last_update_id
  stored,            \* what store_config last wrote (NotStored: nothing)
  updates,           \* the remote's updates; update i has update_id i
  remote_offset,     \* the remote has confirmed every update_id below it
  get_resps,         \* HTTP exchanges of the getUpdates requests of the call
  results,           \* get_updates: data["result"]
  prev_last_update_id, \* last_update_id when the current get_updates began
  returned,          \* update_ids returned to a caller of get_updates
  pre_reg,           \* registered_chats before the last merge
  new_chats,         \* add_recent_chats: new_chats
  cleared,           \* a non-empty registry was cleared
  raised,            \* the last method call raised TGException
  notify,            \* broadcast: notify
  idx,               \* broadcast: position in registered_chats.items()
  num_success,       \* broadcast: num_success
  num_failure,       \* broadcast: num_failure
  sent,              \* broadcast: requests posted, [payload, resp]
  errors,            \* broadcast: logger.error records
  ret,               \* broadcast: the returned value
  photo_sizes,       \* download_photo_from_msg: msg["photo"]
  file_id,           \* download_photo_from_msg: file_id (0: None)
  photo_done,        \* download_photo_from_msg wrote the file
  exit_code,         \* the process's exit code (main)
  uncaught           \* main ended by an uncaught TGException

vars == << driver, args, isfile, xdg_available, pc, op, calls,
           config_file_path, warned, file_content, api_key, registered_chats,
           last_update_id, stored, updates, remote_offset,
           get_resps, results, prev_last_update_id, returned, pre_reg,
           new_chats, cleared, raised, notify, idx, num_success, num_failure,
           sent, errors, ret, photo_sizes, file_id, photo_done, exit_code,
           uncaught >>

envVars == << driver, args, xdg_available >>
remoteVars == << updates, remote_offset >>
getVars == << get_resps, results, prev_last_update_id >>
bcVars == << notify, idx, num_success, num_failure, sent, errors, ret >>
photoVars == << photo_sizes, file_id, photo_done >>

----------------------------------------------------------------------------
(* Bounds of the model *)

MaxUpdates == 2   \* updates the remote ever holds
MaxCalls == 3     \* method calls of the lib driver
MaxPhotos == 3    \* photo sizes offered by one message
MaxWidth == 2     \* widths 1..MaxWidth

----------------------------------------------------------------------------
(* Values *)

NoneVal == "<None>"

ScriptPath == "script/config.json"
XdgPath == "xdg/config.json"
ExplicitPath == "explicit.json"
Paths == {ScriptPath, XdgPath, ExplicitPath}

StrKey(n) == [t |-> "str", v |-> n]
IntKey(n) == [t |-> "int", v |-> n]

Entry(k, name) == [k |-> k, name |-> name]

Max(a, b) == IF a >= b THEN a ELSE b
Min(a, b) == IF a <= b THEN a ELSE b

\* get_updates' default page size
Limit == 100

Hostname == "host"

\* Chats as the remote reports them; a name part may be absent.
Chats ==
  { [id |-> 1, first_name |-> "Alice"],
    [id |-> 1, first_name |-> "Alicia", username |-> "al"],
    [id |-> 2, first_name |-> "Bob", last_name |-> "B"] }

StoredName(s) == << s, "<no last name>", "<no username>" >>

\* JSON objects a config file may hold: "registered_chats" is the object's
\* sequence of members, every key a string.
FileContents ==
  { [api_key |-> "KEY", registered_chats |-> << >>],
    [api_key |-> "KEY",
     registered_chats |-> << Entry(StrKey(1), StoredName("Alice")) >>],
    [api_key |-> "KEY",
     registered_chats |-> << Entry(StrKey(1), StoredName("Alice")),
                             Entry(StrKey(2), StoredName("Bob")),
                             Entry(StrKey(3), StoredName("Carol")) >>],
    [api_key |-> "",
     registered_chats |-> << Entry(StrKey(2), StoredName("Bob")) >>],
    [api_key |-> "KEY"],
    [registered_chats |-> << >>] }

\* Registries a client may hand to the constructor.
ClientChats ==
  { << >>,
    << Entry(StrKey(1), StoredName("Alice")) >>,
    << Entry(IntKey(2), StoredName("Bob")) >> }

\* HTTP exchanges: requests raised, or a response with a status code.
Resps ==
  { [exc |-> TRUE, status |-> 0],
    [exc |-> FALSE, status |-> 200],
    [exc |-> FALSE, status |-> 400],
    [exc |-> FALSE, status |-> 500] }

\* checked_get_request tells 200 from every other status, lines 75-77
GetResps == { r \in Resps : r.status # 400 }

ArgSets ==
  [ config : {NoneVal, ExplicitPath},
    newconfig : {NoneVal, "", "KEY"},
    find : BOOLEAN, chats : BOOLEAN, clear : BOOLEAN, mute : BOOLEAN,
    msg : {"hello"} ]

DefaultArgs ==
  [ config |-> NoneVal, newconfig |-> NoneVal, find |-> FALSE,
    chats |-> FALSE, clear |-> FALSE, mute |-> FALSE, msg |-> "hello" ]

----------------------------------------------------------------------------
(* get_config_file_path, lines 12-65 *)

\* is_config_at_script, line 37
IsConfigAtScript == isfile[ScriptPath]

\* config_at_xdg_path, lines 40-48: None when the xdg module is missing
ConfigAtXdgPath == IF xdg_available THEN XdgPath ELSE NoneVal

\* is_config_at_xdg, lines 41-48
IsConfigAtXdg == xdg_available /\ isfile[XdgPath]

GetConfigFilePath_PreferXdg(p) ==
  IF p # NoneVal THEN p
  ELSE IF IsConfigAtXdg THEN XdgPath
  ELSE IF IsConfigAtScript THEN ScriptPath
  ELSE IF ConfigAtXdgPath # NoneVal THEN ConfigAtXdgPath
  ELSE ScriptPath

GetConfigFilePath(p) ==
  IF p # NoneVal THEN p
  ELSE IF IsConfigAtXdg /\ IsConfigAtScript THEN ScriptPath
  ELSE IF IsConfigAtScript THEN ScriptPath
  ELSE IF IsConfigAtXdg THEN ConfigAtXdgPath
  ELSE IF ConfigAtXdgPath # NoneVal THEN ConfigAtXdgPath
  ELSE ScriptPath

\* the logger.warning of lines 50-53
WarnsTwoConfigs(p) == p = NoneVal /\ IsConfigAtXdg /\ IsConfigAtScript

----------------------------------------------------------------------------
(* dicts and JSON *)

DictKeys(d) == { d[i].k : i \in DOMAIN d }

DictSet_Append(d, k, name) == Append(d, Entry(k, name))

\* d[k] = name: an existing key keeps its position and takes the new value
DictSet(d, k, name) ==
  IF k \in DictKeys(d)
  THEN [i \in DOMAIN d |-> IF d[i].k = k THEN Entry(k, name) ELSE d[i]]
  ELSE Append(d, Entry(k, name))

RECURSIVE DictUpdate(_, _)
\* d.update(e)
DictUpdate(d, e) ==
  IF e = << >> THEN d
  ELSE DictUpdate(DictSet(d, Head(e).k, Head(e).name), Tail(e))

\* json.dump turns every key into a string
JsonKey(k) == StrKey(k.v)

\* the members json.dump writes for a dict, duplicates included
JsonDumpDict(d) == [i \in DOMAIN d |-> Entry(JsonKey(d[i].k), d[i].name)]

\* json.load of an object: a repeated key keeps its last value
JsonLoadDict(members) == DictUpdate(<< >>, members)

\* store_config's data, as written, lines 111-116
StoreConfigData(key, chats) ==
  [api_key |-> key, registered_chats |-> JsonDumpDict(chats)]

\* the two 'not in config.keys()' tests of create, lines 102-105
IncompleteConfig(config) ==
  ~("api_key" \in DOMAIN config) \/ ~("registered_chats" \in DOMAIN config)

----------------------------------------------------------------------------
(* requests *)

CheckedGetRaises_Never(resp) == FALSE

\* checked_get_request raises TGException, lines 67-78
CheckedGetRaises(resp) == resp.exc \/ resp.status # 200

PostResult_Only400(resp) ==
  IF resp.exc
  THEN [raised |-> TRUE, reason |-> "critical", status |-> 0, hint |-> FALSE]
  ELSE IF resp.status = 400
  THEN [raised |-> TRUE, reason |-> "status", status |-> resp.status,
        hint |-> TRUE]
  ELSE [raised |-> FALSE, reason |-> "", status |-> resp.status,
        hint |-> FALSE]

\* TGNotifier.post, lines 123-135: whether it raises TGException and with
\* which message (hint: the " (illformed message?)" suffix)
PostResult(resp) ==
  IF resp.exc
  THEN [raised |-> TRUE, reason |-> "critical", status |-> 0, hint |-> FALSE]
  ELSE IF resp.status # 200
  THEN [raised |-> TRUE, reason |-> "status", status |-> resp.status,
        hint |-> resp.status = 400]
  ELSE [raised |-> FALSE, reason |-> "", status |-> resp.status,
        hint |-> FALSE]

\* send_msg's payload, lines 138-143
SendMsgPayload(chat_id, msg, n) ==
  [chat_id |-> chat_id, text |-> msg, parse_mode |-> "markdown",
   disable_notification |-> n]

\* send_host_msg's new_msg, line 148
HostMsg(msg) == [msg |-> msg, from |-> Hostname]

----------------------------------------------------------------------------
(* the remote's getUpdates and get_updates' cursor *)

\* The updates answered to a getUpdates request with this offset: those
\* not confirmed whose update_id is at least the offset, oldest first, at
\* most `limit` of them.
Batch(offset, limit) ==
  LET first == Max(Max(offset, remote_offset), 1)
      n == Max(0, Min(limit, Len(updates) - first + 1))
  IN [i \in 1..n |->
        [update_id |-> first + i - 1,
         message |-> [chat |-> updates[first + i - 1]]]]

NewLastUpdateId_First(cur, res) ==
  IF res = << >> THEN cur ELSE res[1].update_id

RECURSIVE NewLastUpdateId(_, _)
\* the loop of lines 187-190
NewLastUpdateId(cur, res) ==
  IF res = << >> THEN cur
  ELSE NewLastUpdateId(Max(cur, Head(res).update_id), Tail(res))

\* dict.get(key, default)
DictGet(f, key, default) == IF key \in DOMAIN f THEN f[key] ELSE default

\* chat_name, lines 230-234
ChatName(chat) ==
  << DictGet(chat, "first_name", "<no first name>"),
     DictGet(chat, "last_name", "<no last name>"),
     DictGet(chat, "username", "<no username>") >>

RECURSIVE RecentChats(_, _)
\* the loop of get_recent_chats, lines 224-237
RecentChats(res, acc) ==
  IF res = << >> THEN acc
  ELSE RecentChats(Tail(res),
         DictSet(acc, IntKey(Head(res).message.chat.id),
                 ChatName(Head(res).message.chat)))

----------------------------------------------------------------------------
(* download_photo_from_msg's selection, lines 203-210 *)

RECURSIVE SelectPhoto_LastWins(_, _, _, _)
SelectPhoto_LastWins(sizes, i, width, fid) ==
  IF i > Len(sizes) THEN fid
  ELSE IF sizes[i].width >= width
  THEN SelectPhoto_LastWins(sizes, i + 1, sizes[i].width, sizes[i].file_id)
  ELSE SelectPhoto_LastWins(sizes, i + 1, width, fid)

RECURSIVE SelectPhoto(_, _, _, _)
\* the loop from position i on, with the width and file_id held so far
SelectPhoto(sizes, i, width, fid) ==
  IF i > Len(sizes) THEN fid
  ELSE IF sizes[i].width > width
  THEN SelectPhoto(sizes, i + 1, sizes[i].width, sizes[i].file_id)
  ELSE SelectPhoto(sizes, i + 1, width, fid)

\* msg["photo"]: the file_id of a size is its position
PhotoSizes ==
  UNION { [1..n -> 1..MaxWidth] : n \in 0..MaxPhotos }

PhotoMsg(ws) ==
  [i \in DOMAIN ws |-> [file_id |-> i, width |-> ws[i], height |-> ws[i]]]

----------------------------------------------------------------------------
(* Initial state *)

NoFile == [unread |-> TRUE]
NotStored == [unwritten |-> TRUE]

\* what holds before either driver has run anything
InitCommon ==
  /\ pc = "start"
  /\ op = "none"
  /\ calls = 0
  /\ config_file_path = NoneVal
  /\ warned = FALSE
  /\ file_content = NoFile
  /\ api_key = NoneVal
  /\ registered_chats = << >>
  /\ last_update_id = 0
  /\ stored = NotStored
  /\ updates = << >>
  /\ remote_offset = 0
  /\ get_resps = << >>
  /\ results = << >>
  /\ prev_last_update_id = 0
  /\ returned = {}
  /\ pre_reg = << >>
  /\ new_chats = << >>
  /\ cleared = FALSE
  /\ raised = FALSE
  /\ notify = FALSE
  /\ idx = 0
  /\ num_success = 0
  /\ num_failure = 0
  /\ sent = << >>
  /\ errors = << >>
  /\ ret = -1
  /\ photo_sizes = << >>
  /\ file_id = 0
  /\ photo_done = FALSE
  /\ exit_code = -1
  /\ uncaught = FALSE

\* one run of the program: any command line, any files.  The file at the
\* explicit path matters only when -c names it.
Init ==
  /\ driver = "main"
  /\ args \in ArgSets
  /\ isfile \in [Paths -> BOOLEAN]
  /\ (args.config = NoneVal => ~isfile[ExplicitPath])
  /\ xdg_available \in BOOLEAN
  /\ InitCommon

\* a client of the class: no command line, no config file
InitLib ==
  /\ driver = "lib"
  /\ args = DefaultArgs
  /\ isfile = [p \in Paths |-> FALSE]
  /\ xdg_available = FALSE
  /\ InitCommon

----------------------------------------------------------------------------
(* main, lines 287-336 *)

\* exit(code)
Exit(code) ==
  /\ pc' = "exit"
  /\ exit_code' = code

\* A TGException leaves the method.  Nothing in main catches it: the
\* interpreter prints the traceback and exits with code 1.  The lib client
\* catches it and goes on.
RaiseTGException ==
  /\ raised' = TRUE
  /\ IF driver = "main"
     THEN /\ Exit(1)
          /\ uncaught' = TRUE
     ELSE /\ pc' = "idle"
          /\ UNCHANGED << exit_code, uncaught >>

\* line 287
MainResolve ==
  /\ driver = "main"
  /\ pc = "start"
  /\ config_file_path' = GetConfigFilePath(args.config)
  /\ warned' = WarnsTwoConfigs(args.config)
  /\ pc' = "resolved"
  /\ UNCHANGED << envVars, isfile, op, calls, file_content, api_key,
                  registered_chats, last_update_id, stored, remoteVars,
                  getVars, returned, pre_reg, new_chats, cleared, raised,
                  bcVars, photoVars, exit_code, uncaught >>

\* lines 289-294: TGNotifier(api_key, config_file_path); store_config()
MainNewConfig ==
  /\ driver = "main"
  /\ pc = "resolved"
  /\ args.newconfig # NoneVal
  /\ api_key' = args.newconfig
  /\ registered_chats' = << >>
  /\ last_update_id' = 0
  /\ stored' = StoreConfigData(api_key', registered_chats')
  /\ isfile' = [isfile EXCEPT ![config_file_path] = TRUE]
  /\ Exit(0)
  /\ UNCHANGED << envVars, op, calls, config_file_path, warned, file_content,
                  remoteVars, getVars, returned, pre_reg, new_chats, cleared,
                  raised, bcVars, photoVars, uncaught >>

\* lines 296-298
MainNoConfig ==
  /\ driver = "main"
  /\ pc = "resolved"
  /\ args.newconfig = NoneVal
  /\ ~isfile[config_file_path]
  /\ Exit(1)
  /\ UNCHANGED << envVars, isfile, op, calls, config_file_path, warned,
                  file_content, api_key, registered_chats, last_update_id,
                  stored, remoteVars, getVars, returned, pre_reg, new_chats,
                  cleared, raised, bcVars, photoVars, uncaught >>

\* line 300 and TGNotifier.create, lines 93-108, on a file that holds
\* `content`
MainCreate(content) ==
  /\ driver = "main"
  /\ pc = "resolved"
  /\ args.newconfig = NoneVal
  /\ isfile[config_file_path]
  /\ config_file_path' = GetConfigFilePath(config_file_path)
  /\ file_content' = content
  /\ IF IncompleteConfig(content)
     THEN /\ RaiseTGException
          /\ UNCHANGED << api_key, registered_chats, last_update_id >>
     ELSE /\ api_key' = content.api_key
          /\ registered_chats' = JsonLoadDict(content.registered_chats)
          /\ last_update_id' = 0
          /\ pc' = "loaded"
          /\ UNCHANGED << raised, exit_code, uncaught >>
  /\ UNCHANGED << envVars, isfile, op, calls, warned, stored, remoteVars,
                  getVars, returned, pre_reg, new_chats, cleared, bcVars,
                  photoVars >>

\* lines 302-303: tgn.add_recent_chats() begins
MainFind ==
  /\ driver = "main"
  /\ pc = "loaded"
  /\ args.find
  /\ op' = "add_recent_chats"
  /\ prev_last_update_id' = last_update_id
  /\ pc' = "pull"
  /\ UNCHANGED << envVars, isfile, calls, config_file_path, warned,
                  file_content, api_key, registered_chats, last_update_id,
                  stored, remoteVars, get_resps, results, returned, pre_reg,
                  new_chats, cleared, raised, bcVars, photoVars, exit_code,
                  uncaught >>

\* lines 319-324
MainChats ==
  /\ driver = "main"
  /\ pc = "loaded"
  /\ ~args.find
  /\ args.chats
  /\ op' = "chats"
  /\ Exit(0)
  /\ UNCHANGED << envVars, isfile, calls, config_file_path, warned,
                  file_content, api_key, registered_chats, last_update_id,
                  stored, remoteVars, getVars, returned, pre_reg, new_chats,
                  cleared, raised, bcVars, photoVars, uncaught >>

\* lines 326-331
MainClear ==
  /\ driver = "main"
  /\ pc = "loaded"
  /\ ~args.find
  /\ ~args.chats
  /\ args.clear
  /\ op' = "clear"
  /\ cleared' = (cleared \/ registered_chats # << >>)
  /\ registered_chats' = << >>
  /\ stored' = StoreConfigData(api_key, registered_chats')
  /\ Exit(0)
  /\ UNCHANGED << envVars, isfile, calls, config_file_path, warned,
                  file_content, api_key, last_update_id, remoteVars, getVars,
                  returned, pre_reg, new_chats, raised, bcVars, photoVars,
                  uncaught >>

\* lines 335-336: tgn.broadcast(msg, with_host=True, notify=(not args.mute))
\* begins, lines 152-153
MainBroadcast ==
  /\ driver = "main"
  /\ pc = "loaded"
  /\ ~args.find
  /\ ~args.chats
  /\ ~args.clear
  /\ op' = "broadcast"
  /\ notify' = ~args.mute
  /\ idx' = 1
  /\ num_success' = 0
  /\ num_failure' = 0
  /\ pc' = "send"
  /\ UNCHANGED << envVars, isfile, calls, config_file_path, warned,
                  file_content, api_key, registered_chats, last_update_id,
                  stored, remoteVars, getVars, returned, pre_reg, new_chats,
                  cleared, raised, sent, errors, ret, photoVars, exit_code,
                  uncaught >>

----------------------------------------------------------------------------
(* TGNotifier.broadcast, lines 151-170 *)

\* one iteration of the loop, lines 154-165: send_host_msg to the idx-th
\* entry, answered by `resp`
Send(resp) ==
  /\ pc = "send"
  /\ idx <= Len(registered_chats)
  /\ LET e == registered_chats[idx]
         payload == SendMsgPayload(e.k, HostMsg(args.msg), notify)
         r == PostResult(resp)
     IN /\ sent' = Append(sent, [payload |-> payload, resp |-> resp])
        /\ IF r.raised
           THEN /\ errors' = Append(errors, [name |-> e.name, reason |-> r])
                /\ num_failure' = num_failure + 1
                /\ UNCHANGED num_success
           ELSE /\ num_success' = num_success + 1
                /\ UNCHANGED << errors, num_failure >>
  /\ idx' = idx + 1
  /\ UNCHANGED << envVars, isfile, pc, op, calls, config_file_path, warned,
                  file_content, api_key, registered_chats, last_update_id,
                  stored, remoteVars, getVars, returned, pre_reg, new_chats,
                  cleared, raised, notify, ret, photoVars, exit_code,
                  uncaught >>

\* lines 166-170, and main falls off its end: exit code 0
BroadcastDone ==
  /\ pc = "send"
  /\ idx > Len(registered_chats)
  /\ ret' = num_failure
  /\ Exit(0)
  /\ UNCHANGED << envVars, isfile, op, calls, config_file_path, warned,
                  file_content, api_key, registered_chats, last_update_id,
                  stored, remoteVars, getVars, returned, pre_reg, new_chats,
                  cleared, raised, notify, idx, num_success, num_failure,
                  sent, errors, photoVars, uncaught >>

----------------------------------------------------------------------------
(* TGNotifier.get_updates, lines 177-198 *)

\* A chat sends the bot a message before the notifier asks for updates.
Arrive(chat) ==
  /\ pc = "pull"
  /\ Len(updates) < MaxUpdates
  /\ updates' = Append(updates, chat)
  /\ UNCHANGED << envVars, isfile, pc, op, calls, config_file_path, warned,
                  file_content, api_key, registered_chats, last_update_id,
                  stored, remote_offset, getVars, returned,
                  pre_reg, new_chats, cleared, raised, bcVars, photoVars,
                  exit_code, uncaught >>

\* lines 178-192: the first request and the cursor update
Pull(resp) ==
  /\ pc = "pull"
  /\ LET offset == last_update_id + 1
     IN /\ get_resps' = Append(get_resps, resp)
        /\ IF CheckedGetRaises(resp)
           THEN /\ RaiseTGException
                /\ UNCHANGED << remote_offset, results, last_update_id >>
           ELSE /\ remote_offset' = Max(remote_offset, offset)
                /\ results' = Batch(offset, Limit)
                /\ last_update_id' = NewLastUpdateId(last_update_id, results')
                /\ pc' = "ack"
                /\ UNCHANGED << raised, exit_code, uncaught >>
  /\ UNCHANGED << envVars, isfile, op, calls, config_file_path, warned,
                  file_content, api_key, registered_chats, stored, updates,
                  prev_last_update_id, returned, pre_reg, new_chats, cleared,
                  bcVars, photoVars >>

UpdateIds(res) == { res[i].update_id : i \in DOMAIN res }

\* lines 194-198: the acknowledging request, then `return results`
Ack(resp) ==
  /\ pc = "ack"
  /\ LET offset == last_update_id + 1
     IN /\ get_resps' = Append(get_resps, resp)
        /\ IF CheckedGetRaises(resp)
           THEN /\ RaiseTGException
                /\ UNCHANGED << remote_offset, returned >>
           ELSE /\ remote_offset' = Max(remote_offset, offset)
                /\ returned' = returned \cup UpdateIds(results)
                /\ pc' = IF op = "add_recent_chats" THEN "merge" ELSE "idle"
                /\ UNCHANGED << raised, exit_code, uncaught >>
  /\ UNCHANGED << envVars, isfile, op, calls, config_file_path, warned,
                  file_content, api_key, registered_chats, last_update_id,
                  stored, updates, results, prev_last_update_id, pre_reg,
                  new_chats, cleared, bcVars, photoVars >>

\* get_recent_chats after get_updates returned, lines 224-237, and
\* add_recent_chats, lines 174-175
Merge ==
  /\ pc = "merge"
  /\ new_chats' = RecentChats(results, << >>)
  /\ pre_reg' = registered_chats
  /\ registered_chats' = DictUpdate(registered_chats, new_chats')
  /\ pc' = IF driver = "main" THEN "found" ELSE "idle"
  /\ UNCHANGED << envVars, isfile, op, calls, config_file_path, warned,
                  file_content, api_key, last_update_id, stored, remoteVars,
                  getVars, returned, cleared, raised, bcVars, photoVars,
                  exit_code, uncaught >>

\* main, lines 304-317
MainFound ==
  /\ pc = "found"
  /\ IF Len(new_chats) = 0
     THEN UNCHANGED stored
     ELSE stored' = StoreConfigData(api_key, registered_chats)
  /\ Exit(0)
  /\ UNCHANGED << envVars, isfile, op, calls, config_file_path, warned,
                  file_content, api_key, registered_chats, last_update_id,
                  remoteVars, getVars, returned, pre_reg, new_chats, cleared,
                  raised, bcVars, photoVars, uncaught >>

----------------------------------------------------------------------------
(* a client of the class *)

\* TGNotifier(api_key, config_file_path, registered_chats), lines 85-91
LibConstruct(chats) ==
  /\ driver = "lib"
  /\ pc = "start"
  /\ config_file_path' = ExplicitPath
  /\ api_key' = "KEY"
  /\ registered_chats' = chats
  /\ last_update_id' = 0
  /\ pc' = "idle"
  /\ UNCHANGED << envVars, isfile, op, calls, warned, file_content, stored,
                  remoteVars, getVars, returned, pre_reg, new_chats, cleared,
                  raised, bcVars, photoVars, exit_code, uncaught >>

\* the state a method call starts from
BeginCall(name) ==
  /\ driver = "lib"
  /\ pc = "idle"
  /\ calls < MaxCalls
  /\ calls' = calls + 1
  /\ op' = name
  /\ raised' = FALSE
  /\ get_resps' = << >>
  /\ results' = << >>
  /\ prev_last_update_id' = last_update_id
  /\ pre_reg' = << >>
  /\ new_chats' = << >>

\* tgn.add_recent_chats() begins
LibAddRecentChats ==
  /\ BeginCall("add_recent_chats")
  /\ pc' = "pull"
  /\ UNCHANGED << envVars, isfile, config_file_path, warned, file_content,
                  api_key, registered_chats, last_update_id, stored,
                  remoteVars, returned, cleared, bcVars, exit_code,
                  uncaught >>
  /\ photo_sizes' = << >>
  /\ file_id' = 0
  /\ photo_done' = FALSE

\* tgn.get_updates() begins
LibGetUpdates ==
  /\ BeginCall("get_updates")
  /\ pc' = "pull"
  /\ UNCHANGED << envVars, isfile, config_file_path, warned, file_content,
                  api_key, registered_chats, last_update_id, stored,
                  remoteVars, returned, cleared, bcVars, exit_code,
                  uncaught >>
  /\ photo_sizes' = << >>
  /\ file_id' = 0
  /\ photo_done' = FALSE

\* tgn.registered_chats = {}; tgn.store_config(), as main does it,
\* lines 327-328
LibClear ==
  /\ BeginCall("clear")
  /\ cleared' = (cleared \/ registered_chats # << >>)
  /\ registered_chats' = << >>
  /\ stored' = StoreConfigData(api_key, registered_chats')
  /\ pc' = "idle"
  /\ UNCHANGED << envVars, isfile, config_file_path, warned, file_content,
                  api_key, last_update_id, remoteVars, returned, bcVars,
                  exit_code, uncaught >>
  /\ photo_sizes' = << >>
  /\ file_id' = 0
  /\ photo_done' = FALSE

\* tgn.download_photo_from_msg(msg, path), lines 200-220, for a message
\* whose photo sizes have the widths ws; rFile answers getFile and rData
\* the download
DownloadPhoto(ws, rFile, rData) ==
  /\ BeginCall("download_photo_from_msg")
  /\ (CheckedGetRaises(rFile) => rData = rFile)  \* no second request then
  /\ photo_sizes' = PhotoMsg(ws)
  /\ file_id' = SelectPhoto(photo_sizes', 1, -1, 0)
  /\ IF CheckedGetRaises(rFile) \/ CheckedGetRaises(rData)
     THEN /\ photo_done' = FALSE
          /\ raised' = TRUE
     ELSE photo_done' = TRUE
  /\ pc' = "idle"
  /\ UNCHANGED << envVars, isfile, config_file_path, warned, file_content,
                  api_key, registered_chats, last_update_id, stored,
                  remoteVars, returned, cleared, bcVars, exit_code,
                  uncaught >>

----------------------------------------------------------------------------

Next ==
  \/ MainResolve
  \/ MainNewConfig
  \/ MainNoConfig
  \/ \E content \in FileContents : MainCreate(content)
  \/ MainFind
  \/ MainChats
  \/ MainClear
  \/ MainBroadcast
  \/ \E resp \in Resps : Send(resp)
  \/ BroadcastDone
  \/ \E chat \in Chats : Arrive(chat)
  \/ \E resp \in GetResps : Pull(resp)
  \/ \E resp \in GetResps : Ack(resp)
  \/ Merge
  \/ MainFound

NextLib ==
  \/ \E chats \in ClientChats : LibConstruct(chats)
  \/ LibAddRecentChats
  \/ LibGetUpdates
  \/ LibClear
  \/ \E chat \in Chats : Arrive(chat)
  \/ \E resp \in GetResps : Pull(resp)
  \/ \E resp \in GetResps : Ack(resp)
  \/ Merge

NextPhoto ==
  \/ \E chats \in ClientChats : LibConstruct(chats)
  \/ \E ws \in PhotoSizes, rFile \in GetResps, rData \in GetResps :
        DownloadPhoto(ws, rFile, rData)

\* one run of the command line program
Spec == Init /\ [][Next]_vars

\* a client calling the methods of one TGNotifier
SpecLib == InitLib /\ [][NextLib]_vars


\* a client downloading the photos of messages
SpecPhoto == InitLib /\ [][NextPhoto]_vars

----------------------------------------------------------------------------
(* Properties *)

\* a delivery, or a request, failed: requests raised or the status is not 200
RequestFailed(resp) == resp.exc \/ resp.status # 200

FailedSends == { i \in DOMAIN sent : RequestFailed(sent[i].resp) }

MaxOf(S) == CHOOSE m \in S : \A x \in S : x <= m

\* C1: a broadcast posts one sendMessage per registry entry, in the stored
\* order, whatever the earlier deliveries did; it counts the failed ones in
\* num_failure and the others in num_success, logs one error per failure,
\* and ends having gone through all N entries with num_success = N - F and
\* the returned num_failure = F.
C1_BroadcastCounts ==
  op = "broadcast" =>
    /\ Len(sent) = idx - 1
    /\ Len(sent) <= Len(registered_chats)
    /\ \A i \in DOMAIN sent : sent[i].payload.chat_id = registered_chats[i].k
    /\ num_failure = Cardinality(FailedSends)
    /\ num_success = Len(sent) - Cardinality(FailedSends)
    /\ Len(errors) = num_failure
    /\ (pc = "exit" =>
          /\ ~uncaught
          /\ Len(sent) = Len(registered_chats)
          /\ num_success = Len(registered_chats) - Cardinality(FailedSends)
          /\ ret = Cardinality(FailedSends))

C1_Witness ==
  /\ op = "broadcast"
  /\ pc = "exit"
  /\ Len(sent) = 3
  /\ sent[1].resp.exc
  /\ sent[2].resp.status = 200
  /\ sent[3].resp.status = 400
  /\ ret = 2
  /\ num_success = 1

\* C2: every update the remote has confirmed (a getUpdates request with an
\* offset above its update_id was answered) has been returned to a caller
\* of get_updates.
C2_NoMissingDiscovery ==
  \A id \in 1..Len(updates) : id < remote_offset => id \in returned

\* the steps the cursor may take
C3_CursorStep ==
  /\ (pc = "pull" /\ pc' = "ack" =>
        /\ last_update_id' = MaxOf({last_update_id} \cup UpdateIds(results'))
        /\ (results' = << >> => last_update_id' = last_update_id))
  /\ (pc # "start" /\ ~(pc = "pull" /\ pc' = "ack") =>
        last_update_id' = last_update_id)
  /\ last_update_id' >= last_update_id

\* C3: the cursor starts at 0 and never decreases; the step of get_updates
\* that receives the batch sets it to the largest of its prior value and
\* the batch's update_ids (an empty batch leaves it as it was), and no
\* other step of a call changes it, whether the call fails or not.
C3_Cursor == last_update_id = 0 /\ [][C3_CursorStep]_vars

C3_Witness ==
  /\ pc = "ack"
  /\ calls = 2
  /\ prev_last_update_id = 1
  /\ Len(results) = 1
  /\ last_update_id = 2

\* C4: the path main resolves is the explicit one when -c gives one,
\* whatever files exist; otherwise the one next to the script when both
\* config files exist, the existing one when one exists, and when none
\* exists the xdg one if the xdg module is there, else the one next to the
\* script.  The warning is logged exactly when no explicit path is given
\* and both exist.  (The xdg config "exists" when the module is there and
\* the file is.)
C4_ConfigPath ==
  pc \in {"resolved", "loaded"} =>
    LET atScript == isfile[ScriptPath]
        atXdg == xdg_available /\ isfile[XdgPath]
    IN /\ (args.config # NoneVal => config_file_path = args.config)
       /\ (args.config = NoneVal /\ atScript /\ atXdg =>
             config_file_path = ScriptPath)
       /\ (args.config = NoneVal /\ atScript /\ ~atXdg =>
             config_file_path = ScriptPath)
       /\ (args.config = NoneVal /\ ~atScript /\ atXdg =>
             config_file_path = XdgPath)
       /\ (args.config = NoneVal /\ ~atScript /\ ~atXdg /\ xdg_available =>
             config_file_path = XdgPath)
       /\ (args.config = NoneVal /\ ~atScript /\ ~atXdg /\ ~xdg_available =>
             config_file_path = ScriptPath)
       /\ (warned <=> (args.config = NoneVal /\ atScript /\ atXdg))

C4_Witness ==
  /\ pc = "resolved"
  /\ args.config = NoneVal
  /\ isfile[ScriptPath]
  /\ xdg_available
  /\ isfile[XdgPath]
  /\ warned
  /\ config_file_path = ScriptPath

\* the chat ids of a batch, and the name the last message of a chat gives
ObservedIds(res) == { res[i].message.chat.id : i \in DOMAIN res }

LatestName(res, c) ==
  LET last == MaxOf({ i \in DOMAIN res : res[i].message.chat.id = c })
  IN ChatName(res[last].message.chat)

\* the entries of a registry that stand for recipient c
EntriesOf(reg, c) == { i \in DOMAIN reg : reg[i].k.v = c }

\* C5: after add_recent_chats on a registry loaded from the config file,
\* every observed recipient has exactly one entry, which holds the name of
\* its latest message, and the entries of the other recipients are as they
\* were.
C5_MergeByRecipient ==
  pc = "found" =>
    /\ \A c \in ObservedIds(results) :
         /\ Cardinality(EntriesOf(registered_chats, c)) = 1
         /\ \A i \in EntriesOf(registered_chats, c) :
              registered_chats[i].name = LatestName(results, c)
    /\ \A i \in DOMAIN pre_reg :
         pre_reg[i].k.v \notin ObservedIds(results) =>
           \E j \in DOMAIN registered_chats : registered_chats[j] = pre_reg[i]

\* C6: every sendMessage payload of a broadcast has disable_notification
\* true exactly when --mute was given.
C6_MuteFlag ==
  \A i \in DOMAIN sent : sent[i].payload.disable_notification = args.mute

\* C7, as claimed: the exit code is 1 when no config file exists at the
\* resolved path and no new config is asked for, and 0 in every other run,
\* whatever the requests did.
C7_ExitCodes ==
  pc = "exit" =>
    exit_code = IF args.newconfig = NoneVal /\ ~isfile[config_file_path]
                THEN 1 ELSE 0

ConfigLacksField(c) == ~({"api_key", "registered_chats"} \subseteq DOMAIN c)

\* C7, amended: exit code 0 on new config and, with a config file that
\* holds both fields, on list, clear, send (whatever the sendMessage
\* requests did) and on a discovery whose getUpdates requests both succeed;
\* exit code 1 without a config file and without --newconfig; an uncaught
\* TGException (exit code 1) when the config file lacks a field or a
\* getUpdates request of the discovery fails.
C7_ExitCodesAmended ==
  pc = "exit" =>
    IF args.newconfig # NoneVal THEN exit_code = 0 /\ ~uncaught
    ELSE IF ~isfile[config_file_path] THEN exit_code = 1 /\ ~uncaught
    ELSE IF ConfigLacksField(file_content) THEN exit_code = 1 /\ uncaught
    ELSE IF args.find /\ \E i \in DOMAIN get_resps : RequestFailed(get_resps[i])
    THEN exit_code = 1 /\ uncaught
    ELSE exit_code = 0 /\ ~uncaught

C7_Witness ==
  /\ pc = "exit"
  /\ args.find
  /\ Len(get_resps) = 2
  /\ ~RequestFailed(get_resps[1])
  /\ RequestFailed(get_resps[2])
  /\ results # << >>
  /\ exit_code = 1
  /\ uncaught

MergeDone == op = "add_recent_chats" /\ pc = "idle" /\ ~raised

\* the entries get_recent_chats can extract from a batch of at most
\* MaxUpdates messages
BatchOf(chats) ==
  [i \in DOMAIN chats |-> [update_id |-> i, message |-> [chat |-> chats[i]]]]

CandidateEntries ==
  { RecentChats(BatchOf(chats), << >>) :
      chats \in UNION { [1..n -> Chats] : n \in 0..MaxUpdates } }

\* C8: for the registry of every reachable state and every set of entries
\* a discovery can yield, merging the entries twice gives what merging
\* them once gives; after a merge, merging the same entries again changes
\* nothing; a cleared registry is empty; and merging into an empty registry
\* yields exactly the merged entries.
C8_MergeIdempotent ==
  /\ \A n \in CandidateEntries :
        DictUpdate(DictUpdate(registered_chats, n), n)
          = DictUpdate(registered_chats, n)
  /\ (MergeDone =>
        /\ DictUpdate(registered_chats, new_chats) = registered_chats
        /\ (pre_reg = << >> => registered_chats = new_chats))
  /\ (op = "clear" /\ pc = "idle" => registered_chats = << >>)

C8_Witness ==
  /\ MergeDone
  /\ cleared
  /\ pre_reg = << >>
  /\ Len(new_chats) = 2

MaxWidthOf(sizes) == MaxOf({ sizes[i].width : i \in DOMAIN sizes })

WidestAt(sizes) == { i \in DOMAIN sizes : sizes[i].width = MaxWidthOf(sizes) }

PhotoSelected == op = "download_photo_from_msg" /\ photo_sizes # << >>

\* C9, as claimed: the selected size is the last one of maximum width.
C9_LastWidest ==
  PhotoSelected => file_id = photo_sizes[MaxOf(WidestAt(photo_sizes))].file_id

\* C9, amended: the selected size has maximum width, and among several of
\* maximum width it is the first one in iteration order.
C9_FirstWidest ==
  PhotoSelected =>
    /\ file_id \in { photo_sizes[i].file_id : i \in WidestAt(photo_sizes) }
    /\ \A i \in WidestAt(photo_sizes) : file_id <= photo_sizes[i].file_id

C9_Witness ==
  /\ PhotoSelected
  /\ Len(photo_sizes) = 3
  /\ photo_sizes[1].width = 1
  /\ photo_sizes[2].width = 2
  /\ photo_sizes[3].width = 2
  /\ file_id = 2

\* C10: the credential of a notifier is never empty, and neither is the
\* credential of a config the program has written.
C10_CredentialNonEmpty ==
  /\ api_key # ""
  /\ ("api_key" \in DOMAIN stored => stored.api_key # "")

====
